---- MODULE Spec2Model ----
(***************************************************************************)
(* Model of backend/main.py: the rule-based severity classifier, the       *)
(* trajectory analyzer and the in-memory patient store with its handlers.  *)
(*                                                                         *)
(* Representation.  A Python str is a sequence of one-character strings,   *)
(* so that lower(), strip() and the substring test `in` are computed       *)
(* rather than assumed.  An Optional value is <<>> (None) or <<v>>.  A     *)
(* date is its day ordinal.  An outcome score is a float counted in half   *)
(* points (8.0 is 16, 6.5 is 13): halves are exact in binary floating      *)
(* point, so the integer arithmetic below is the float arithmetic of the   *)
(* code on these values.  An insertion-ordered dict is a sequence of       *)
(* [key, value] entries.                                                   *)
(***************************************************************************)
EXTENDS Integers, Sequences, FiniteSets, TLC

VARIABLES
    PATIENT_STORE,  \* the module-level dict: patient id -> list of visits
    response,       \* what the last handler returned (or raised)
    posted,         \* history: per id, the visits POSTed since its last delete/reset
    call,           \* a direct call of a pure function: its name and arguments
    ret             \* the value that call returned, once it has returned

vars == <<PATIENT_STORE, response, posted, call, ret>>

----------------------------------------------------------------------------
(* Bounds of the model. *)

MaxFragments == 3

MaxLen == 3

MaxTreatLen == 2

MaxScoreLen == 2

MaxVisits == 2

----------------------------------------------------------------------------
(* Python values. *)

None == <<>>

Some(v) == <<v>>

Get(o) == o[1]

\* str.lower() on the letters that occur in the inputs
LowerMap ==
    ("A" :> "a") @@ ("C" :> "c") @@ ("D" :> "d") @@ ("E" :> "e") @@ ("N" :> "n")

lower(s) == [i \in 1..Len(s) |-> IF s[i] \in DOMAIN LowerMap THEN LowerMap[s[i]] ELSE s[i]]

Whitespace == {" ", "\t", "\n"}

\* str.strip(): drop leading and trailing whitespace
strip(s) ==
    LET keep == {i \in 1..Len(s) : s[i] \notin Whitespace} IN
    IF keep = {} THEN <<>>
    ELSE LET lo == CHOOSE i \in keep : \A j \in keep : i <= j
             hi == CHOOSE i \in keep : \A j \in keep : j <= i
         IN  SubSeq(s, lo, hi)

\* the substring test `pat in s`
In(pat, s) ==
    \E k \in 0..(Len(s) - Len(pat)) : \A j \in 1..Len(pat) : s[k + j] = pat[j]

\* any(keyword in s for keyword in keywords)
any_in(keywords, s) == \E n \in 1..Len(keywords) : In(keywords[n], s)

abs(x) == IF x < 0 THEN -x ELSE x

RECURSIVE Flatten(_)
\* the issues appended by the iterations of one loop, in iteration order
Flatten(ss) == IF ss = <<>> THEN <<>> ELSE Head(ss) \o Flatten(Tail(ss))

----------------------------------------------------------------------------
(* The string literals of the source. *)

\* "advanced diabetic nephropathy"
kw_advanced_diabetic_nephropathy == <<"a","d","v","a","n","c","e","d"," ","d","i","a","b",
    "e","t","i","c"," ","n","e","p","h","r","o","p","a","t","h","y">>
\* "nephropathy"
kw_nephropathy == <<"n","e","p","h","r","o","p","a","t","h","y">>
\* "diabetes"
kw_diabetes == <<"d","i","a","b","e","t","e","s">>
\* "diabetic"
kw_diabetic == <<"d","i","a","b","e","t","i","c">>
\* "pre"
kw_pre == <<"p","r","e">>
\* "prediabetes"
kw_prediabetes == <<"p","r","e","d","i","a","b","e","t","e","s">>
\* "normal"
kw_normal == <<"n","o","r","m","a","l">>
\* "diet"
kw_diet == <<"d","i","e","t">>
\* "lifestyle"
kw_lifestyle == <<"l","i","f","e","s","t","y","l","e">>
\* "exercise"
kw_exercise == <<"e","x","e","r","c","i","s","e">>
\* "insulin"
kw_insulin == <<"i","n","s","u","l","i","n">>
\* "metformin"
kw_metformin == <<"m","e","t","f","o","r","m","i","n">>
\* "ace inhibitor"
kw_ace_inhibitor == <<"a","c","e"," ","i","n","h","i","b","i","t","o","r">>
\* "arb"
kw_arb == <<"a","r","b">>
\* "no treatment"
kw_no_treatment == <<"n","o"," ","t","r","e","a","t","m","e","n","t">>
\* "none"
kw_none == <<"n","o","n","e">>
\* "dialysis"
kw_dialysis == <<"d","i","a","l","y","s","i","s">>
\* "improved"
kw_improved == <<"i","m","p","r","o","v","e","d">>
\* "controlled"
kw_controlled == <<"c","o","n","t","r","o","l","l","e","d">>
\* "resolved"
kw_resolved == <<"r","e","s","o","l","v","e","d">>

----------------------------------------------------------------------------
(* _severity_from_diagnosis *)

\* a faulty variant: the plain "nephropathy" test comes before the more specific one
_severity_nephropathy_first(diagnosis) ==
    LET diag == lower(diagnosis) IN
    IF In(kw_nephropathy, diag) THEN Some(3)
    ELSE IF In(kw_advanced_diabetic_nephropathy, diag) THEN Some(4)
    ELSE IF In(kw_diabetes, diag) \/ In(kw_diabetic, diag) THEN
        (IF In(kw_pre, diag) THEN Some(1) ELSE Some(2))
    ELSE IF In(kw_prediabetes, diag) THEN Some(1)
    ELSE IF In(kw_normal, diag) THEN Some(0)
    ELSE None

_severity_from_diagnosis(diagnosis) ==
    LET diag == lower(diagnosis) IN
    IF In(kw_advanced_diabetic_nephropathy, diag) THEN Some(4)
    ELSE IF In(kw_nephropathy, diag) THEN Some(3)
    ELSE IF In(kw_diabetes, diag) \/ In(kw_diabetic, diag) THEN
        (IF In(kw_pre, diag) THEN Some(1) ELSE Some(2))
    ELSE IF In(kw_prediabetes, diag) THEN Some(1)
    ELSE IF In(kw_normal, diag) THEN Some(0)
    ELSE None

----------------------------------------------------------------------------
(* The texts the model feeds the program. *)

\* "flu"
dx_flu == <<"f","l","u">>
\* "Normal"
dx_normal == <<"N","o","r","m","a","l">>
\* "prediabetes"
dx_prediabetes == <<"p","r","e","d","i","a","b","e","t","e","s">>
\* "diabetes type 2"
dx_diabetes_type_2 == <<"d","i","a","b","e","t","e","s"," ","t","y","p","e"," ","2">>
\* "nephropathy"
dx_nephropathy == <<"n","e","p","h","r","o","p","a","t","h","y">>
\* "advanced diabetic nephropathy"
dx_advanced_diabetic_nephropathy == <<"a","d","v","a","n","c","e","d"," ","d","i","a","b",
    "e","t","i","c"," ","n","e","p","h","r","o","p","a","t","h","y">>
\* "diabetes improved"
dx_diabetes_improved == <<"d","i","a","b","e","t","e","s"," ","i","m","p","r","o","v","e",
    "d">>
\* "Controlled nephropathy"
dx_controlled_nephropathy == <<"C","o","n","t","r","o","l","l","e","d"," ","n","e","p","h",
    "r","o","p","a","t","h","y">>
\* "lifestyle changes only"
tx_lifestyle_changes_only == <<"l","i","f","e","s","t","y","l","e"," ","c","h","a","n","g",
    "e","s"," ","o","n","l","y">>
\* "insulin and lifestyle changes"
tx_insulin_and_lifestyle_changes == <<"i","n","s","u","l","i","n"," ","a","n","d"," ","l",
    "i","f","e","s","t","y","l","e"," ","c","h","a","n","g","e","s">>
\* "exercise"
tx_exercise == <<"e","x","e","r","c","i","s","e">>
\* "Diet and ACE"
tx_diet_and_ace == <<"D","i","e","t"," ","a","n","d"," ","A","C","E">>
\* "diet and ace inhibitor"
tx_diet_and_ace_inhibitor == <<"d","i","e","t"," ","a","n","d"," ","a","c","e"," ","i","n",
    "h","i","b","i","t","o","r">>
\* "metformin"
tx_metformin == <<"m","e","t","f","o","r","m","i","n">>
\* "  "
tx_blank == <<" "," ">>
\* "None"
tx_none == <<"N","o","n","e">>
\* "insulin"
tx_insulin == <<"i","n","s","u","l","i","n">>
\* "advanced "
frag_advanced == <<"a","d","v","a","n","c","e","d"," ">>
\* "Diabetic "
frag_Diabetic == <<"D","i","a","b","e","t","i","c"," ">>
\* "nephropathy"
frag_nephropathy == <<"n","e","p","h","r","o","p","a","t","h","y">>
\* "pre"
frag_pre == <<"p","r","e">>
\* "diabetes"
frag_diabetes == <<"d","i","a","b","e","t","e","s">>
\* " type 2"
frag_type_2 == <<" ","t","y","p","e"," ","2">>
\* "normal"
frag_normal == <<"n","o","r","m","a","l">>
\* "flu"
frag_flu == <<"f","l","u">>

----------------------------------------------------------------------------
(* The pydantic models. *)

Visit(date, diagnosis, treatment, outcome_score, notes) ==
    [date |-> date, diagnosis |-> diagnosis, treatment |-> treatment,
     outcome_score |-> outcome_score, notes |-> notes]

\* message: the f-string's fixed text with the values it interpolates
Issue(type, message, related_dates) ==
    [type |-> type, message |-> message, related_dates |-> related_dates]

PatientTimeline(patient_id, visits, issues) ==
    [patient_id |-> patient_id, visits |-> visits, issues |-> issues]

----------------------------------------------------------------------------
(* _analyze_timeline *)

\* a faulty variant: the list is used in input order
sorted_not(visits) == visits

RECURSIVE sorted(_)
\* sorted(visits, key=lambda v: v.date): ascending by date, stable
sorted(visits) ==
    IF visits = <<>> THEN <<>>
    ELSE LET n    == Len(visits)
             v    == visits[n]
             rest == sorted(SubSeq(visits, 1, n - 1))
             k    == Cardinality({i \in 1..Len(rest) : rest[i].date <= v.date})
         IN  SubSeq(rest, 1, k) \o <<v>> \o SubSeq(rest, k + 1, Len(rest))

msg_sudden == "Sudden diagnosis severity change from {!r} to {!r}. Possible missed progression or mislabeling."

msg_missed == "Potential missed progression: diagnosis improved and then worsened sharply. Review middle visit for possible misclassification or under-diagnosis."

msg_mild == "High-severity diagnosis ({!r}) but treatment looks mild ({!r}). Check if escalation of therapy is needed."

msg_no_treatment == "Diagnosis {!r} has no clear treatment documented. Verify if treatment is missing from the record."

msg_aggressive == "Low-severity diagnosis ({!r}) with aggressive treatment ({!r}). Check if diagnosis severity or treatment plan is documented correctly."

msg_outcome == "Outcome score worsened but diagnosis text suggests improvement ({!r}). Possible label-outcome mismatch."

\* the threshold 1.0 of the outcome rule, in half points
one_point == 2

\* a faulty variant: the change is taken without abs(), so only increases count
sudden_jumps_increase_only(visits_sorted, severities) ==
    Flatten([k \in 1..(Len(visits_sorted) - 1) |->
        LET i      == k + 1
            s_prev == severities[i - 1]
            s_curr == severities[i]
        IN  IF s_prev # None /\ s_curr # None /\ Get(s_curr) - Get(s_prev) >= 2
            THEN <<Issue("diagnosis_drift",
                         <<msg_sudden, visits_sorted[i - 1].diagnosis, visits_sorted[i].diagnosis>>,
                         <<visits_sorted[i - 1].date, visits_sorted[i].date>>)>>
            ELSE <<>>])

\* 1) sudden jumps in severity between consecutive visits
sudden_jumps(visits_sorted, severities) ==
    Flatten([k \in 1..(Len(visits_sorted) - 1) |->
        LET i      == k + 1
            s_prev == severities[i - 1]
            s_curr == severities[i]
        IN  IF s_prev # None /\ s_curr # None /\ abs(Get(s_curr) - Get(s_prev)) >= 2
            THEN <<Issue("diagnosis_drift",
                         <<msg_sudden, visits_sorted[i - 1].diagnosis, visits_sorted[i].diagnosis>>,
                         <<visits_sorted[i - 1].date, visits_sorted[i].date>>)>>
            ELSE <<>>])

\* a faulty variant: the spike must end more than one level above the pre-dip level
dip_then_spike_strict(visits_sorted, severities) ==
    Flatten([k \in 1..(Len(visits_sorted) - 2) |->
        LET i      == k + 1
            s_prev == severities[i - 1]
            s_mid  == severities[i]
            s_next == severities[i + 1]
        IN  IF /\ None \notin {s_prev, s_mid, s_next}
               /\ Get(s_prev) > Get(s_mid)
               /\ Get(s_next) > Get(s_prev) + 1
            THEN <<Issue("diagnosis_drift",
                         <<msg_missed>>,
                         <<visits_sorted[i - 1].date, visits_sorted[i].date,
                           visits_sorted[i + 1].date>>)>>
            ELSE <<>>])

\* 2) the "dip then spike" pattern
dip_then_spike(visits_sorted, severities) ==
    Flatten([k \in 1..(Len(visits_sorted) - 2) |->
        LET i      == k + 1
            s_prev == severities[i - 1]
            s_mid  == severities[i]
            s_next == severities[i + 1]
        IN  IF /\ None \notin {s_prev, s_mid, s_next}
               /\ Get(s_prev) > Get(s_mid)
               /\ Get(s_next) >= Get(s_prev) + 1
            THEN <<Issue("diagnosis_drift",
                         <<msg_missed>>,
                         <<visits_sorted[i - 1].date, visits_sorted[i].date,
                           visits_sorted[i + 1].date>>)>>
            ELSE <<>>])

\* a faulty variant: the mild-treatment rule asks for a severity above 3
treatment_contradictions_above_3(visits_sorted, severities) ==
    Flatten([i \in 1..Len(visits_sorted) |->
        LET v     == visits_sorted[i]
            sev   == severities[i]
            treat == lower(v.treatment)
        IN  IF sev = None THEN <<>>
            ELSE
               (IF /\ Get(sev) > 3
                   /\ any_in(<<kw_diet, kw_lifestyle, kw_exercise>>, treat)
                   /\ ~any_in(<<kw_insulin, kw_metformin, kw_ace_inhibitor, kw_arb>>, treat)
                THEN <<Issue("treatment_contradiction",
                             <<msg_mild, v.diagnosis, v.treatment>>, <<v.date>>)>>
                ELSE <<>>)
               \o
               (IF /\ Get(sev) >= 2
                   /\ (strip(treat) = <<>> \/ In(kw_no_treatment, treat) \/ In(kw_none, treat))
                THEN <<Issue("treatment_contradiction",
                             <<msg_no_treatment, v.diagnosis>>, <<v.date>>)>>
                ELSE <<>>)
               \o
               (IF /\ Get(sev) <= 1
                   /\ any_in(<<kw_insulin, kw_dialysis>>, treat)
                THEN <<Issue("treatment_contradiction",
                             <<msg_aggressive, v.diagnosis, v.treatment>>, <<v.date>>)>>
                ELSE <<>>)])

\* the three treatment rules, per visit in date order
treatment_contradictions(visits_sorted, severities) ==
    Flatten([i \in 1..Len(visits_sorted) |->
        LET v     == visits_sorted[i]
            sev   == severities[i]
            treat == lower(v.treatment)
        IN  IF sev = None THEN <<>>
            ELSE
               (IF /\ Get(sev) >= 3
                   /\ any_in(<<kw_diet, kw_lifestyle, kw_exercise>>, treat)
                   /\ ~any_in(<<kw_insulin, kw_metformin, kw_ace_inhibitor, kw_arb>>, treat)
                THEN <<Issue("treatment_contradiction",
                             <<msg_mild, v.diagnosis, v.treatment>>, <<v.date>>)>>
                ELSE <<>>)
               \o
               (IF /\ Get(sev) >= 2
                   /\ (strip(treat) = <<>> \/ In(kw_no_treatment, treat) \/ In(kw_none, treat))
                THEN <<Issue("treatment_contradiction",
                             <<msg_no_treatment, v.diagnosis>>, <<v.date>>)>>
                ELSE <<>>)
               \o
               (IF /\ Get(sev) <= 1
                   /\ any_in(<<kw_insulin, kw_dialysis>>, treat)
                THEN <<Issue("treatment_contradiction",
                             <<msg_aggressive, v.diagnosis, v.treatment>>, <<v.date>>)>>
                ELSE <<>>)])

\* outcome reversals between consecutive visits
outcome_reversals(visits_sorted, scores) ==
    Flatten([k \in 1..(Len(visits_sorted) - 1) |->
        LET i          == k + 1
            prev_score == scores[i - 1]
            curr_score == scores[i]
            diag_text  == lower(visits_sorted[i].diagnosis)
        IN  IF /\ prev_score # None /\ curr_score # None
               /\ Get(curr_score) - Get(prev_score) >= one_point
               /\ any_in(<<kw_improved, kw_controlled, kw_resolved>>, diag_text)
            THEN <<Issue("outcome_reversal",
                         <<msg_outcome, visits_sorted[i].diagnosis>>,
                         <<visits_sorted[i - 1].date, visits_sorted[i].date>>)>>
            ELSE <<>>])

\* a faulty variant: the outcome loop runs before the treatment loop
_analyze_timeline_outcome_first(visits) ==
    IF visits = <<>> THEN <<>>
    ELSE LET visits_sorted == sorted(visits)
             severities    == [i \in 1..Len(visits_sorted) |->
                                   _severity_from_diagnosis(visits_sorted[i].diagnosis)]
             scores        == [i \in 1..Len(visits_sorted) |-> visits_sorted[i].outcome_score]
         IN  sudden_jumps(visits_sorted, severities)
             \o dip_then_spike(visits_sorted, severities)
             \o outcome_reversals(visits_sorted, scores)
             \o treatment_contradictions(visits_sorted, severities)

_analyze_timeline(visits) ==
    IF visits = <<>> THEN <<>>
    ELSE LET visits_sorted == sorted(visits)
             severities    == [i \in 1..Len(visits_sorted) |->
                                   _severity_from_diagnosis(visits_sorted[i].diagnosis)]
             scores        == [i \in 1..Len(visits_sorted) |-> visits_sorted[i].outcome_score]
         IN  sudden_jumps(visits_sorted, severities)
             \o dip_then_spike(visits_sorted, severities)
             \o treatment_contradictions(visits_sorted, severities)
             \o outcome_reversals(visits_sorted, scores)

----------------------------------------------------------------------------
(* PATIENT_STORE: an insertion-ordered dict, and the handlers. *)

\* list(d.keys())
dict_keys(d) == [i \in 1..Len(d) |-> d[i].key]

\* key in d
has_key(d, key) == \E i \in 1..Len(d) : d[i].key = key

\* d.get(key)
dict_get(d, key) ==
    IF has_key(d, key)
    THEN Some(d[CHOOSE i \in 1..Len(d) : d[i].key = key].value)
    ELSE None

\* d.setdefault(key, []).append(item)
setdefault_append(d, key, item) ==
    IF has_key(d, key)
    THEN [i \in 1..Len(d) |->
             IF d[i].key = key THEN [key |-> key, value |-> Append(d[i].value, item)]
             ELSE d[i]]
    ELSE Append(d, [key |-> key, value |-> <<item>>])

\* del d[key]
dict_del(d, key) ==
    LET Other(e) == e.key # key IN SelectSeq(d, Other)

Response(op, patient_id, status, body) ==
    [op |-> op, patient_id |-> patient_id, status |-> status, body |-> body]

health_check ==
    /\ response' = Response("health_check", "", 200, [status |-> "ok"])
    /\ UNCHANGED <<PATIENT_STORE, posted, call, ret>>

list_patients ==
    /\ response' = Response("list_patients", "", 200, dict_keys(PATIENT_STORE))
    /\ UNCHANGED <<PATIENT_STORE, posted, call, ret>>

\* a faulty variant: the stored list itself is sorted (visits.sort) before it is returned
get_patient_timeline_sort_in_place(patient_id) ==
    LET visits == dict_get(PATIENT_STORE, patient_id) IN
    /\ response' =
          IF visits = None
          THEN Response("get_patient_timeline", patient_id, 404, [detail |-> "Patient not found"])
          ELSE Response("get_patient_timeline", patient_id, 200,
                        PatientTimeline(patient_id, sorted(Get(visits)),
                                        _analyze_timeline(Get(visits))))
    /\ PATIENT_STORE' =
          [i \in 1..Len(PATIENT_STORE) |->
              IF PATIENT_STORE[i].key = patient_id
              THEN [key |-> patient_id, value |-> sorted(PATIENT_STORE[i].value)]
              ELSE PATIENT_STORE[i]]
    /\ UNCHANGED <<posted, call, ret>>

get_patient_timeline(patient_id) ==
    LET visits == dict_get(PATIENT_STORE, patient_id) IN
    /\ response' =
          IF visits = None
          THEN Response("get_patient_timeline", patient_id, 404, [detail |-> "Patient not found"])
          ELSE Response("get_patient_timeline", patient_id, 200,
                        PatientTimeline(patient_id, sorted(Get(visits)),
                                        _analyze_timeline(Get(visits))))
    /\ UNCHANGED <<PATIENT_STORE, posted, call, ret>>

add_visit(patient_id, visit) ==
    LET store  == setdefault_append(PATIENT_STORE, patient_id, visit)
        visits == Get(dict_get(store, patient_id))
    IN  /\ Len(visits) <= MaxVisits
        /\ PATIENT_STORE' = store
        /\ response' = Response("add_visit", patient_id, 200,
                                PatientTimeline(patient_id, sorted(visits),
                                                _analyze_timeline(visits)))
        /\ posted' = [posted EXCEPT ![patient_id] = Append(@, visit)]
        /\ UNCHANGED <<call, ret>>

\* a faulty variant: an unknown id is not refused
delete_patient_no_404(patient_id) ==
    /\ PATIENT_STORE' = dict_del(PATIENT_STORE, patient_id)
    /\ response' = Response("delete_patient", patient_id, 200,
                            [status |-> "deleted", patient_id |-> patient_id])
    /\ posted' = [posted EXCEPT ![patient_id] = <<>>]
    /\ UNCHANGED <<call, ret>>

delete_patient(patient_id) ==
    /\ IF ~has_key(PATIENT_STORE, patient_id)
       THEN /\ response' = Response("delete_patient", patient_id, 404,
                                    [detail |-> "Patient not found"])
            /\ UNCHANGED <<PATIENT_STORE, posted>>
       ELSE /\ PATIENT_STORE' = dict_del(PATIENT_STORE, patient_id)
            /\ response' = Response("delete_patient", patient_id, 200,
                                    [status |-> "deleted", patient_id |-> patient_id])
            /\ posted' = [posted EXCEPT ![patient_id] = <<>>]
    /\ UNCHANGED <<call, ret>>

reset_all ==
    /\ PATIENT_STORE' = <<>>
    /\ response' = Response("reset_all", "", 200, [status |-> "reset", patients |-> 0])
    /\ posted' = [p \in DOMAIN posted |-> <<>>]
    /\ UNCHANGED <<call, ret>>

----------------------------------------------------------------------------
(* The requests the service is driven with. *)

PatientIds == {"p1", "p2"}

StoreVisits ==
    { Visit(2, dx_diabetes_type_2, tx_blank, Some(16), None),
      Visit(1, dx_advanced_diabetic_nephropathy, tx_lifestyle_changes_only, None, None),
      Visit(2, dx_normal, tx_insulin, Some(13), Some(<<"n">>)) }

NoCall == [fn |-> "", args |-> <<>>]

NoResponse == Response("", "", 0, <<>>)

Init ==
    /\ PATIENT_STORE = <<>>
    /\ response = NoResponse
    /\ posted = [p \in PatientIds |-> <<>>]
    /\ call = NoCall
    /\ ret = None

Next ==
    \/ health_check
    \/ list_patients
    \/ \E patient_id \in PatientIds : get_patient_timeline(patient_id)
    \/ \E patient_id \in PatientIds, visit \in StoreVisits : add_visit(patient_id, visit)
    \/ \E patient_id \in PatientIds : delete_patient(patient_id)
    \/ reset_all

Spec == Init /\ [][Next]_vars

----------------------------------------------------------------------------
(* Direct calls of the two pure functions. *)

\* the state in which a pure function has been called and has not yet returned
Calling(fn, args) ==
    /\ PATIENT_STORE = <<>>
    /\ response = NoResponse
    /\ posted = [p \in PatientIds |-> <<>>]
    /\ call = [fn |-> fn, args |-> args]
    /\ ret = None

RECURSIVE Concat(_)
\* the text made of the fragments fs, in order
Concat(fs) == IF fs = <<>> THEN <<>> ELSE Head(fs) \o Concat(Tail(fs))

Fragments ==
    {frag_advanced, frag_Diabetic, frag_nephropathy, frag_pre, frag_diabetes,
     frag_type_2, frag_normal, frag_flu}

return_severity ==
    /\ call.fn = "_severity_from_diagnosis"
    /\ ret = None
    /\ ret' = Some(_severity_from_diagnosis(call.args[1]))
    /\ UNCHANGED <<PATIENT_STORE, response, posted, call>>

InitSeverity ==
    \E n \in 0..MaxFragments : \E fs \in [1..n -> Fragments] :
        Calling("_severity_from_diagnosis", <<Concat(fs)>>)

SpecSeverity == InitSeverity /\ [][return_severity]_vars

\* _analyze_timeline is called on a list of at most n visits of visit_set
InitAnalyze(visit_set, n) ==
    \E k \in 0..n : \E visits \in [1..k -> visit_set] :
        Calling("_analyze_timeline", <<visits>>)

return_analyze ==
    /\ call.fn = "_analyze_timeline"
    /\ ret = None
    /\ ret' = Some(_analyze_timeline(call.args[1]))
    /\ UNCHANGED <<PATIENT_STORE, response, posted, call>>

\* diagnoses of severities 0, 1, 2 and 3, and one the classifier does not know
DriftVisits ==
    { Visit(d, dx, tx_metformin, None, None) :
        d \in 1..3,
        dx \in {dx_flu, dx_normal, dx_prediabetes, dx_diabetes_type_2, dx_nephropathy} }

SpecDrift == InitAnalyze(DriftVisits, MaxLen) /\ [][return_analyze]_vars

\* mild, escalated and absent treatments against severities 2, 3, 4 and undefined
TreatmentVisits ==
    { Visit(d, dx, tx, None, None) :
        d \in 1..2,
        dx \in {dx_flu, dx_diabetes_type_2, dx_nephropathy, dx_advanced_diabetic_nephropathy},
        tx \in {tx_lifestyle_changes_only, tx_insulin_and_lifestyle_changes, tx_exercise,
                tx_diet_and_ace, tx_diet_and_ace_inhibitor, tx_none} }

SpecTreatment == InitAnalyze(TreatmentVisits, MaxTreatLen) /\ [][return_analyze]_vars

\* scores 8.0, 6.5, 7.5, 10.0, 0.0, 11.0, -1.0 in half points, and no score
OutcomeVisits ==
    { Visit(d, dx, tx_metformin, score, None) :
        d \in 1..2,
        dx \in {dx_diabetes_type_2, dx_diabetes_improved},
        score \in {None} \cup {Some(x) : x \in {16, 13, 15, 20, 0, 22, -2}} }

SpecOutcome == InitAnalyze(OutcomeVisits, MaxScoreLen) /\ [][return_analyze]_vars

\* visits on which every pass has something to report
MixedVisits ==
    { Visit(d, x[1], x[2], Some(12 + 2 * d), None) :
        d \in 1..3,
        x \in {<<dx_prediabetes, tx_metformin>>, <<dx_normal, tx_insulin>>,
               <<dx_controlled_nephropathy, tx_exercise>>,
               <<dx_controlled_nephropathy, tx_metformin>>} }

SpecMixed == InitAnalyze(MixedVisits, MaxLen) /\ [][return_analyze]_vars

\* the property test of order-invariance: analyze a list and a shuffle of it
return_shuffled ==
    /\ call.fn = "shuffled"
    /\ ret = None
    /\ ret' = Some(<<_analyze_timeline(call.args[1]), _analyze_timeline(call.args[2])>>)
    /\ UNCHANGED <<PATIENT_STORE, response, posted, call>>

Shuffles(n) == {f \in [1..n -> 1..n] : \A i, j \in 1..n : f[i] = f[j] => i = j}

ShuffleVisits ==
    { Visit(1, dx_prediabetes, tx_metformin, None, None),
      Visit(1, dx_nephropathy, tx_metformin, None, None),
      Visit(2, dx_normal, tx_metformin, None, None),
      Visit(2, dx_nephropathy, tx_metformin, None, None),
      Visit(3, dx_normal, tx_metformin, None, None),
      Visit(3, dx_nephropathy, tx_metformin, None, None) }

InitShuffle ==
    \E k \in 0..MaxLen : \E visits \in [1..k -> ShuffleVisits] : \E f \in Shuffles(k) :
        Calling("shuffled", <<visits, [i \in 1..k |-> visits[f[i]]]>>)

SpecShuffle == InitShuffle /\ [][return_shuffled]_vars

----------------------------------------------------------------------------
(* What the claims speak of. *)

\* a direct call of _analyze_timeline has returned
Analyzed == call.fn = "_analyze_timeline" /\ ret # None

\* its argument, and the issue list it returned
Input == call.args[1]

Issues == Get(ret)

\* the visits of V ascending by date, equal dates in input order: visit i comes after
\* the visits of an earlier date and the earlier visits of its own date
DateOrder(V) ==
    LET Before(i) == {j \in 1..Len(V) :
                         \/ V[j].date < V[i].date
                         \/ V[j].date = V[i].date /\ j < i}
    IN  [k \in 1..Len(V) |-> V[CHOOSE i \in 1..Len(V) : Cardinality(Before(i)) = k - 1]]

\* the severity the classifier gives each visit of a timeline
Severities(T) == [i \in 1..Len(T) |-> _severity_from_diagnosis(T[i].diagnosis)]

\* the dates of every n consecutive visits of timeline T
Consecutive(T, n) == {[j \in 1..n |-> T[i + j - 1].date] : i \in 1..(Len(T) - n + 1)}

\* the date lists of length n that the returned issues of this type cite
Cited(type, n) ==
    {Issues[k].related_dates : k \in {m \in 1..Len(Issues) :
        Issues[m].type = type /\ Len(Issues[m].related_dates) = n}}

\* the positions of the returned list holding an issue of this type and these dates
IssuesAt(type, dates) ==
    {k \in 1..Len(Issues) : Issues[k].type = type /\ Issues[k].related_dates = dates}

\* a priority table of <<patterns, further pattern, severity>> rows: the severity of
\* the first row of which one of the patterns and the further pattern occur in text
FirstMatch(table, text) ==
    LET hits == {n \in 1..Len(table) : any_in(table[n][1], text) /\ In(table[n][2], text)}
    IN  IF hits = {} THEN None
        ELSE Some(table[CHOOSE n \in hits : \A m \in hits : n <= m][3])

\* patterns that only the specification names
\* "diabetes type 3"
spec_diabetes_type_3 == <<"d","i","a","b","e","t","e","s"," ","t","y","p","e"," ","3">>
\* "diabetes type 2"
spec_diabetes_type_2 == <<"d","i","a","b","e","t","e","s"," ","t","y","p","e"," ","2">>
\* "diabetes type 1"
spec_diabetes_type_1 == <<"d","i","a","b","e","t","e","s"," ","t","y","p","e"," ","1">>
\* "ace"
spec_ace == <<"a","c","e">>

----------------------------------------------------------------------------
(* C3: the severity classifier. *)

SeverityReturned == call.fn = "_severity_from_diagnosis" /\ ret # None

CanonicalTable ==
    << <<(<<spec_diabetes_type_3>>), <<>>, 4>>,
       <<(<<spec_diabetes_type_2>>), <<>>, 3>>,
       <<(<<spec_diabetes_type_1>>), <<>>, 2>>,
       <<(<<kw_advanced_diabetic_nephropathy>>), <<>>, 5>>,
       <<(<<kw_nephropathy>>), <<>>, 4>>,
       <<(<<kw_prediabetes>>), <<>>, 1>>,
       <<(<<kw_diabetes, kw_diabetic>>), <<>>, 2>>,
       <<(<<kw_normal>>), <<>>, 0>> >>

SourceTable ==
    << <<(<<kw_advanced_diabetic_nephropathy>>), <<>>, 4>>,
       <<(<<kw_nephropathy>>), <<>>, 3>>,
       <<(<<kw_diabetes, kw_diabetic>>), kw_pre, 1>>,
       <<(<<kw_diabetes, kw_diabetic>>), <<>>, 2>>,
       <<(<<kw_prediabetes>>), <<>>, 1>>,
       <<(<<kw_normal>>), <<>>, 0>> >>

\* C3 as stated: the classifier returns the severity of the first pattern of the
\* canonical order (diabetes type 3 -> 4, diabetes type 2 -> 3, diabetes type 1 -> 2,
\* advanced diabetic nephropathy -> 5, nephropathy -> 4, prediabetes -> 1,
\* diabetes/diabetic -> 2, normal -> 0) found in the lower-cased text, else undefined.
C3_CanonicalOrder ==
    SeverityReturned => Get(ret) = FirstMatch(CanonicalTable, lower(call.args[1]))

\* C3 amended: the classifier returns the severity of the first pattern of the order
\* advanced diabetic nephropathy -> 4, nephropathy -> 3, diabetes/diabetic -> 1 when the
\* text also contains "pre" and 2 otherwise, prediabetes -> 1, normal -> 0 found in the
\* lower-cased text, else undefined; "advanced diabetic nephropathy" classifies as 4.
C3_SourceOrder ==
    SeverityReturned =>
        /\ Get(ret) = FirstMatch(SourceTable, lower(call.args[1]))
        /\ lower(call.args[1]) = kw_advanced_diabetic_nephropathy => Get(ret) = Some(4)

\* the text "advanced Diabetic nephropathy" has been classified, as 4
C3_Witness ==
    /\ SeverityReturned
    /\ call.args[1] # lower(call.args[1])
    /\ lower(call.args[1]) = kw_advanced_diabetic_nephropathy
    /\ Get(ret) = Some(4)

----------------------------------------------------------------------------
(* C1: pass 1, sudden jumps. *)

\* the adjacent pairs of timeline T (severities S) of these dates whose severities
\* are both defined and satisfy Differ
Pairs(T, S, dates, Differ(_, _)) ==
    {i \in 2..Len(T) :
        /\ <<T[i - 1].date, T[i].date>> = dates
        /\ S[i - 1] # None /\ S[i] # None
        /\ Differ(Get(S[i - 1]), Get(S[i]))}

AnyChange(s_prev, s_curr) == s_prev # s_curr

JumpOfTwo(s_prev, s_curr) == s_curr - s_prev >= 2 \/ s_prev - s_curr >= 2

\* C1 as stated: one diagnosis_drift issue citing [date(i-1), date(i)] for every
\* adjacent pair of defined severities that differ at all, and none for the others.
C1_DriftOnAnyChange ==
    Analyzed =>
        LET T == DateOrder(Input)
            S == Severities(T)
        IN  \A dates \in Consecutive(T, 2) \cup Cited("diagnosis_drift", 2) :
                Cardinality(IssuesAt("diagnosis_drift", dates))
                    = Cardinality(Pairs(T, S, dates, AnyChange))

\* C1 amended: one diagnosis_drift issue citing [date(i-1), date(i)] for every adjacent
\* pair of defined severities that differ by two levels or more (up or down), and none
\* for a pair that is equal or differs by one level.
C1_DriftOnJumpOfTwo ==
    Analyzed =>
        LET T == DateOrder(Input)
            S == Severities(T)
        IN  \A dates \in Consecutive(T, 2) \cup Cited("diagnosis_drift", 2) :
                Cardinality(IssuesAt("diagnosis_drift", dates))
                    = Cardinality(Pairs(T, S, dates, JumpOfTwo))

\* a timeline with a one-level change that is not reported and a jump that is
C1_Witness ==
    /\ Analyzed
    /\ LET T == DateOrder(Input)
           S == Severities(T)
       IN  /\ \E dates \in Consecutive(T, 2) :
                 /\ Pairs(T, S, dates, AnyChange) # {}
                 /\ Pairs(T, S, dates, JumpOfTwo) = {}
                 /\ IssuesAt("diagnosis_drift", dates) = {}
           /\ \E dates \in Consecutive(T, 2) :
                 /\ Pairs(T, S, dates, JumpOfTwo) # {}
                 /\ IssuesAt("diagnosis_drift", dates) # {}

----------------------------------------------------------------------------
(* C2: pass 2, dip then spike. *)

\* the windows of timeline T (severities S) of these dates whose severities are all
\* defined, dip, and then satisfy Spike
Windows(T, S, dates, Spike(_, _)) ==
    {i \in 2..(Len(T) - 1) :
        /\ <<T[i - 1].date, T[i].date, T[i + 1].date>> = dates
        /\ S[i - 1] # None /\ S[i] # None /\ S[i + 1] # None
        /\ Get(S[i - 1]) > Get(S[i])
        /\ Spike(Get(S[i - 1]), Get(S[i + 1]))}

MoreThanOneAbove(s_prev, s_next) == s_next > s_prev + 1

AtLeastOneAbove(s_prev, s_next) == s_next >= s_prev + 1

\* C2 as stated: a three-date issue for a window a, b, c exactly when a > b and
\* c > a + 1; none when c = a + 1.
C2_SpikeMoreThanOne ==
    Analyzed =>
        LET T == DateOrder(Input)
            S == Severities(T)
        IN  \A dates \in Consecutive(T, 3) \cup Cited("diagnosis_drift", 3) :
                Cardinality(IssuesAt("diagnosis_drift", dates))
                    = Cardinality(Windows(T, S, dates, MoreThanOneAbove))

\* C2 amended: a three-date issue for a window a, b, c exactly when a > b and
\* c >= a + 1; one is emitted when c = a + 1.
C2_SpikeAtLeastOne ==
    Analyzed =>
        LET T == DateOrder(Input)
            S == Severities(T)
        IN  \A dates \in Consecutive(T, 3) \cup Cited("diagnosis_drift", 3) :
                Cardinality(IssuesAt("diagnosis_drift", dates))
                    = Cardinality(Windows(T, S, dates, AtLeastOneAbove))

\* a window whose spike ends exactly one level above the pre-dip level was reported
C2_Witness ==
    /\ Analyzed
    /\ LET T == DateOrder(Input)
           S == Severities(T)
       IN  \E dates \in Consecutive(T, 3) :
              /\ Windows(T, S, dates, AtLeastOneAbove) # {}
              /\ Windows(T, S, dates, MoreThanOneAbove) = {}
              /\ IssuesAt("diagnosis_drift", dates) # {}

----------------------------------------------------------------------------
(* C6: the "mild treatment for severe diagnosis" rule. *)

\* the visits of V of this date whose severity is defined and at least 3 and whose
\* lower-cased treatment contains one of mild and none of escalated
MildForSevere(V, date, mild, escalated) ==
    {i \in 1..Len(V) :
        /\ V[i].date = date
        /\ _severity_from_diagnosis(V[i].diagnosis) # None
        /\ Get(_severity_from_diagnosis(V[i].diagnosis)) >= 3
        /\ any_in(mild, lower(V[i].treatment))
        /\ ~any_in(escalated, lower(V[i].treatment))}

\* the returned issues of the mild-treatment rule that cite this date
MildIssues(date) ==
    {k \in 1..Len(Issues) :
        /\ Issues[k].type = "treatment_contradiction"
        /\ Issues[k].message[1] = msg_mild
        /\ Issues[k].related_dates = <<date>>}

VisitDates == {Input[i].date : i \in 1..Len(Input)}

IssueDates == UNION {{Issues[k].related_dates[j] : j \in 1..Len(Issues[k].related_dates)} :
                        k \in 1..Len(Issues)}

\* C6 as stated: the rule fires for a visit exactly when its severity is >= 3 and its
\* treatment contains "lifestyle" or "diet" and none of "insulin", "metformin", "ace",
\* "arb".
C6_LifestyleOrDiet ==
    Analyzed =>
        \A date \in VisitDates \cup IssueDates :
            Cardinality(MildIssues(date))
                = Cardinality(MildForSevere(Input, date, <<kw_lifestyle, kw_diet>>,
                                            <<kw_insulin, kw_metformin, spec_ace, kw_arb>>))

\* C6 amended: the rule fires for a visit exactly when its severity is >= 3 and its
\* treatment contains "diet", "lifestyle" or "exercise" and none of "insulin",
\* "metformin", "ace inhibitor", "arb".
C6_DietLifestyleExercise ==
    Analyzed =>
        \A date \in VisitDates \cup IssueDates :
            Cardinality(MildIssues(date))
                = Cardinality(MildForSevere(Input, date,
                                            <<kw_diet, kw_lifestyle, kw_exercise>>,
                                            <<kw_insulin, kw_metformin, kw_ace_inhibitor,
                                              kw_arb>>))

\* a severity-4 visit treated with "lifestyle changes only" gave exactly one
\* treatment_contradiction, beside a severe visit treated with "exercise" that gave one too
C6_Witness ==
    /\ Analyzed
    /\ Len(Input) = 2
    /\ Input[1].date = 1 /\ Input[2].date = 2
    /\ _severity_from_diagnosis(Input[1].diagnosis) = Some(4)
    /\ Input[1].treatment = tx_lifestyle_changes_only
    /\ _severity_from_diagnosis(Input[2].diagnosis) = Some(3)
    /\ Input[2].treatment = tx_exercise
    /\ Cardinality(IssuesAt("treatment_contradiction", <<1>>)) = 1
    /\ Cardinality(MildIssues(1)) = 1
    /\ Cardinality(MildIssues(2)) = 1

----------------------------------------------------------------------------
(* C10: the order of the returned list. *)

Kind(issue) ==
    IF issue.type = "diagnosis_drift"
    THEN (IF Len(issue.related_dates) = 2 THEN "pairwise drift" ELSE "dip then spike")
    ELSE issue.type

\* the issues are grouped by kind, the kinds in this order
InOrder(kinds) ==
    \A j, k \in 1..Len(Issues) :
        j < k => \E m, n \in 1..Len(kinds) :
                    /\ m <= n
                    /\ Kind(Issues[j]) = kinds[m]
                    /\ Kind(Issues[k]) = kinds[n]

\* C10 as stated: pairwise drift, dip-then-spike, outcome_reversal, data_error,
\* treatment_contradiction, so every outcome_reversal precedes every
\* treatment_contradiction.
C10_OutcomeBeforeTreatment ==
    Analyzed =>
        InOrder(<<"pairwise drift", "dip then spike", "outcome_reversal", "data_error",
                  "treatment_contradiction">>)

\* C10 amended: pairwise drift, dip-then-spike, treatment_contradiction,
\* outcome_reversal, so every treatment_contradiction precedes every outcome_reversal
\* and every diagnosis_drift issue precedes both.
C10_TreatmentBeforeOutcome ==
    Analyzed =>
        InOrder(<<"pairwise drift", "dip then spike", "treatment_contradiction",
                  "outcome_reversal">>)

\* a returned list that holds an issue of each of the four kinds
C10_Witness ==
    /\ Analyzed
    /\ \A kind \in {"pairwise drift", "dip then spike", "treatment_contradiction",
                    "outcome_reversal"} :
          \E k \in 1..Len(Issues) : Kind(Issues[k]) = kind

----------------------------------------------------------------------------
(* C4, C5: the outcome score rules. *)

\* the adjacent pairs of timeline T of these dates whose scores are both defined, the
\* later lower than the earlier by more than one point
Drops(T, dates) ==
    {i \in 2..Len(T) :
        /\ <<T[i - 1].date, T[i].date>> = dates
        /\ T[i - 1].outcome_score # None /\ T[i].outcome_score # None
        /\ Get(T[i].outcome_score) < Get(T[i - 1].outcome_score) - one_point}

\* C4: an outcome_reversal issue citing [date(i-1), date(i)] exactly for the adjacent
\* pairs of defined scores with curr < prev - 1, whatever the diagnosis text.
C4_ReversalOnDrop ==
    Analyzed =>
        LET T == DateOrder(Input)
        IN  \A dates \in Consecutive(T, 2) \cup Cited("outcome_reversal", 2) :
                Cardinality(IssuesAt("outcome_reversal", dates))
                    = Cardinality(Drops(T, dates))

\* the visits of V of this date whose score is defined and below 0 or above 10
OutOfRange(V, date) ==
    {i \in 1..Len(V) :
        /\ V[i].date = date
        /\ V[i].outcome_score # None
        /\ (Get(V[i].outcome_score) < 0 \/ Get(V[i].outcome_score) > 10 * one_point)}

\* C5: exactly one data_error issue citing the visit's date for every visit whose score
\* is below 0 or above 10, and none for a score within [0, 10] or an absent score.
C5_DataErrorOnInvalidScore ==
    Analyzed =>
        \A date \in VisitDates \cup IssueDates :
            Cardinality(IssuesAt("data_error", <<date>>))
                = Cardinality(OutOfRange(Input, date))

----------------------------------------------------------------------------
(* C7: order-invariance of the input. *)

Shuffled == call.fn = "shuffled" /\ ret # None

DistinctDates(V) == \A i, j \in 1..Len(V) : V[i].date = V[j].date => i = j

\* C7 as stated: a visit list and any permutation of it give the same issue list, also
\* when several visits share a date.
C7_AnyPermutation ==
    Shuffled => Get(ret)[1] = Get(ret)[2]

\* C7 amended: a visit list whose dates are pairwise distinct and any permutation of
\* it give the same issue list (same issues, same order).
C7_DistinctDates ==
    Shuffled /\ DistinctDates(call.args[1]) => Get(ret)[1] = Get(ret)[2]

\* three visits of distinct dates, given out of date order and in another order, for
\* which issues of both drift passes were returned
C7_Witness ==
    /\ Shuffled
    /\ Len(call.args[1]) = 3
    /\ DistinctDates(call.args[1])
    /\ call.args[1] # call.args[2]
    /\ call.args[1][1].date > call.args[1][2].date
    /\ \E k \in 1..Len(Get(ret)[1]) : Len(Get(ret)[1][k].related_dates) = 3
    /\ \E k \in 1..Len(Get(ret)[1]) : Len(Get(ret)[1][k].related_dates) = 2
    /\ Get(ret)[1] = Get(ret)[2]

----------------------------------------------------------------------------
(* C8: the store holds the history of POSTs. *)

\* C8: the visit list stored for each patient id is the sequence of visits POSTed for
\* it since its last delete_patient or reset_all, in insertion order; an id has an
\* entry, and is listed by list_patients, exactly when there was such a POST.
C8_StoreIsPostHistory ==
    /\ \A p \in PatientIds :
          /\ has_key(PATIENT_STORE, p) <=> posted[p] # <<>>
          /\ has_key(PATIENT_STORE, p) => dict_get(PATIENT_STORE, p) = Some(posted[p])
    /\ \A i, j \in 1..Len(PATIENT_STORE) :
          PATIENT_STORE[i].key = PATIENT_STORE[j].key => i = j
    /\ response.op = "list_patients" =>
          {response.body[i] : i \in 1..Len(response.body)}
              = {p \in PatientIds : posted[p] # <<>>}

\* a timeline was read, in date order, of a patient whose two visits were POSTed and
\* are still stored out of date order
C8_Witness ==
    /\ response.op = "get_patient_timeline"
    /\ response.status = 200
    /\ Len(posted[response.patient_id]) = 2
    /\ posted[response.patient_id][1].date > posted[response.patient_id][2].date
    /\ response.body.visits # posted[response.patient_id]
    /\ dict_get(PATIENT_STORE, response.patient_id) = Some(posted[response.patient_id])

----------------------------------------------------------------------------
(* C9: unknown patients. *)

\* what a step that ends in a response of get_patient_timeline or delete_patient does
NotFoundStep ==
    LET p     == response'.patient_id
        known == has_key(PATIENT_STORE, p)
    IN  /\ response'.op = "get_patient_timeline" =>
              /\ response'.status = 404 <=> ~known
              /\ response'.status = 404 <=> posted[p] = <<>>
              /\ PATIENT_STORE' = PATIENT_STORE
        /\ response'.op = "delete_patient" =>
              /\ response'.status = 404 <=> ~known
              /\ response'.status = 404 <=> posted[p] = <<>>
              /\ response'.status = 404 => PATIENT_STORE' = PATIENT_STORE
              /\ response'.status # 404 =>
                    /\ ~has_key(PATIENT_STORE', p)
                    /\ \A q \in PatientIds \ {p} :
                          dict_get(PATIENT_STORE', q) = dict_get(PATIENT_STORE, q)

\* C9: get_patient_timeline and delete_patient answer 404 exactly when the id has no
\* entry (never POSTed to, or not since it was deleted or the store reset) and then
\* leave the store as it is; delete_patient of a known id removes that id's visits and
\* no other's; get_patient_timeline never changes the store.
C9_NotFoundExactlyWhenUnknown == [][NotFoundStep]_vars

\* delete_patient answered 404 for an id deleted before, the other patient's two visits
\* still stored
C9_Witness ==
    /\ response.op = "delete_patient"
    /\ response.status = 404
    /\ ~has_key(PATIENT_STORE, response.patient_id)
    /\ \E q \in PatientIds : has_key(PATIENT_STORE, q) /\ Len(posted[q]) = 2

====
